---- MODULE Spec2Model ----
(***************************************************************************)
(* The vote handler of polls/views.py (function vote, lines 60-118) as a   *)
(* state machine.  Several requests are in flight at once; each runs the   *)
(* handler one storage or session access at a time.  The persisted store   *)
(* holds one vote counter per Choice, the session store one list of voted  *)
(* question identifiers per session key.                                   *)
(***************************************************************************)
EXTENDS Integers, Sequences, FiniteSets, TLC

\* ------------------------------------------------------------------ bounds
NumRequests == 2
NumSessions == 2
MaxIds == 2
MaxTime == 1

\* ------------------------------------------------------------ the database
Requests == 1..NumRequests
Sessions == 1..NumSessions

\* Question rows: primary key and pub_date.  Question 2 is published at
\* time 1, so it is future-dated while now = 0.
Questions == {1, 2}
pub_date == [q \in Questions |-> q - 1]

\* Choice rows: primary key and owning question (Choice.question).
Choices == {1, 2, 3}
QuestionOf == [c \in Choices |-> IF c = 3 THEN 2 ELSE 1]

\* question.choice_set
choice_set(q) == {c \in Choices : QuestionOf[c] = q}

\* Choice.votes of every row before any request is handled.
InitVotes == [c \in Choices |-> 0]

\* ------------------------------------------------------------ the request
Methods == {"GET", "POST"}

\* question_id captured from the URL; 3 names no Question row.
QuestionIds == {1, 2, 3}

\* The values a form can submit under the name "choice".
IdStrings == {"1", "2", "3", "abc"}

\* request.POST.getlist("choice"): a list of strings, repeats allowed.
Payloads == UNION {[1..n -> IdStrings] : n \in 0..MaxIds}

\* The int() conversion the pk field applies to a submitted string.
IsInt(s) == s \in {"1", "2", "3"}
ToInt(s) == CASE s = "1" -> 1 [] s = "2" -> 2 [] s = "3" -> 3 [] OTHER -> 0 - 1

Elems(seq) == {seq[i] : i \in 1..Len(seq)}

\* ------------------------------------------------------------- responses
NoResponse == [status |-> "none", view |-> "", arg |-> 0]
NotAllowed == [status |-> "405", view |-> "", arg |-> 0]
NotFound == [status |-> "404", view |-> "", arg |-> 0]
ServerError == [status |-> "500", view |-> "", arg |-> 0]
RedirectResults(q) == [status |-> "302", view |-> "polls:results", arg |-> q]
RenderDetail(q) == [status |-> "200", view |-> "polls/detail.html", arg |-> q]

AlreadyVotedMsg == [level |-> "warning", text |-> "You have already voted on this question.", n |-> 0]
InvalidMsg == [level |-> "error", text |-> "You didn't select any valid choices.", n |-> 0]
ThanksMsg == [level |-> "success", text |-> "Thanks for voting!", n |-> 0]
ThanksManyMsg(k) == [level |-> "success", text |-> "Thanks for voting! You selected {choice_count} choices.", n |-> k]

VARIABLES
    now,              \* timezone.now()
    votes,            \* Choice.votes as committed in the store
    session,          \* session store: session key -> "voted_questions" list
    method,           \* request.method
    question_id,      \* the question_id argument
    session_key,      \* the session the request's cookie names
    choice_ids,       \* request.POST.getlist("choice")
    pc,               \* where the handler stands
    voted_questions,  \* the handler's local list
    selected_choices, \* the evaluated queryset: pk -> votes as loaded
    tx,               \* rows updated inside the open transaction
    counted,          \* rows whose committed counter holds this request's +1
    response,         \* what the handler returned
    flash             \* messages recorded by the handler

vars == <<now, votes, session, method, question_id, session_key, choice_ids,
          pc, voted_questions, selected_choices, tx, counted, response, flash>>

inputs == <<method, question_id, session_key, choice_ids>>

Init ==
    /\ now = 0
    /\ votes = InitVotes
    /\ session = [s \in Sessions |-> <<>>]
    /\ method \in [Requests -> Methods]
    /\ question_id \in [Requests -> QuestionIds]
    /\ session_key \in [Requests -> Sessions]
    /\ choice_ids \in [Requests -> Payloads]
    /\ pc = [r \in Requests |-> "start"]
    /\ voted_questions = [r \in Requests |-> <<>>]
    /\ selected_choices = [r \in Requests |-> <<>>]
    /\ tx = [r \in Requests |-> {}]
    /\ counted = [r \in Requests |-> {}]
    /\ response = [r \in Requests |-> NoResponse]
    /\ flash = [r \in Requests |-> <<>>]

\* The handler returns resp after recording the messages msgs.
Return(r, resp, msgs) ==
    /\ pc' = [pc EXCEPT ![r] = "done"]
    /\ response' = [response EXCEPT ![r] = resp]
    /\ flash' = [flash EXCEPT ![r] = flash[r] \o msgs]

\* Time passes between any two steps.
Tick ==
    /\ now < MaxTime
    /\ now' = now + 1
    /\ UNCHANGED <<votes, session, inputs, pc, voted_questions,
                   selected_choices, tx, counted, response, flash>>

\* The handler without its method check.
MethodAllowedAny(m) == TRUE

\* if request.method != "POST": return HttpResponseNotAllowed(["POST"])
MethodAllowed(m) == m = "POST"

CheckMethod(r) ==
    /\ pc[r] = "start"
    /\ IF MethodAllowed(method[r])
       THEN /\ pc' = [pc EXCEPT ![r] = "lookup"]
            /\ UNCHANGED <<response, flash>>
       ELSE Return(r, NotAllowed, <<>>)
    /\ UNCHANGED <<now, votes, session, inputs, voted_questions,
                   selected_choices, tx, counted>>

\* The lookup over Question.objects, with no filter on pub_date.
PublishedAlways(q, t) == TRUE

\* Question.objects.filter(pub_date__lte=timezone.now())
Published(q, t) == pub_date[q] <= t

\* get_object_or_404(<published questions>, pk=question_id)
GetQuestion(r) ==
    /\ pc[r] = "lookup"
    /\ IF question_id[r] \in Questions /\ Published(question_id[r], now)
       THEN /\ pc' = [pc EXCEPT ![r] = "guard"]
            /\ UNCHANGED <<response, flash>>
       ELSE Return(r, NotFound, <<>>)
    /\ UNCHANGED <<now, votes, session, inputs, voted_questions,
                   selected_choices, tx, counted>>

\* The handler without its duplicate-vote guard.
AlreadyVotedNever(q, voted) == FALSE

\* if question.id in voted_questions
AlreadyVoted(q, voted) == q \in Elems(voted)

\* The guard placed after the check for an empty selection: a session that
\* has voted is warned only when it submits some identifier, an empty
\* submission goes on to the form error.
DuplicateGuardAfterEmptyCheck(r) ==
    /\ pc[r] = "guard"
    /\ voted_questions' = [voted_questions EXCEPT ![r] = session[session_key[r]]]
    /\ IF /\ AlreadyVoted(question_id[r], session[session_key[r]])
          /\ choice_ids[r] # <<>>
       THEN Return(r, RedirectResults(question_id[r]), <<AlreadyVotedMsg>>)
       ELSE /\ pc' = [pc EXCEPT ![r] = "validate"]
            /\ UNCHANGED <<response, flash>>
    /\ UNCHANGED <<now, votes, session, inputs, selected_choices, tx, counted>>

\* The guard without its messages.warning call.
DuplicateGuardSilent(r) ==
    /\ pc[r] = "guard"
    /\ voted_questions' = [voted_questions EXCEPT ![r] = session[session_key[r]]]
    /\ IF AlreadyVoted(question_id[r], session[session_key[r]])
       THEN Return(r, RedirectResults(question_id[r]), <<>>)
       ELSE /\ pc' = [pc EXCEPT ![r] = "validate"]
            /\ UNCHANGED <<response, flash>>
    /\ UNCHANGED <<now, votes, session, inputs, selected_choices, tx, counted>>

\* voted_questions = request.session.get("voted_questions", []) and the
\* duplicate-vote guard.
DuplicateGuard(r) ==
    /\ pc[r] = "guard"
    /\ voted_questions' = [voted_questions EXCEPT ![r] = session[session_key[r]]]
    /\ IF AlreadyVoted(question_id[r], session[session_key[r]])
       THEN Return(r, RedirectResults(question_id[r]), <<AlreadyVotedMsg>>)
       ELSE /\ pc' = [pc EXCEPT ![r] = "validate"]
            /\ UNCHANGED <<response, flash>>
    /\ UNCHANGED <<now, votes, session, inputs, selected_choices, tx, counted>>

\* selected_choices = question.choice_set.filter(pk__in=choice_ids): the rows
\* of the question whose primary key is one of the submitted values.
MatchingChoices(q, ids) ==
    {c \in choice_set(q) : \E i \in 1..Len(ids) : ToInt(ids[i]) = c}

\* The check reduced to "if not selected_choices": a submission is refused
\* only when none of its identifiers matches.
NoChoiceMatches(q, ids) == MatchingChoices(q, ids) = {}

\* if len(selected_choices) != len(choice_ids)
CountMismatch(q, ids) == Cardinality(MatchingChoices(q, ids)) # Len(ids)

\* The try block: the exception it raises, or "ok".  A value that is no
\* number makes the pk lookup raise ValueError, which the except clause
\* does not name.
Validation(q, ids) ==
    IF ids = <<>> THEN "KeyError"
    ELSE IF \E i \in 1..Len(ids) : ~IsInt(ids[i]) THEN "ValueError"
    ELSE IF CountMismatch(q, ids) THEN "DoesNotExist"
    ELSE "ok"

\* The except clause naming Choice.DoesNotExist alone.
CaughtDoesNotExistOnly(exc) == exc = "DoesNotExist"

\* except (KeyError, Choice.DoesNotExist)
Caught(exc) == exc \in {"KeyError", "DoesNotExist"}

\* The try/except of the handler.  The queryset is evaluated by len(), so
\* the rows, and the votes they carry, are those read at this step.
ValidateChoices(r) ==
    /\ pc[r] = "validate"
    /\ LET q == question_id[r]
           exc == Validation(q, choice_ids[r])
       IN  IF exc = "ok"
           THEN /\ selected_choices' = [selected_choices EXCEPT ![r] =
                       [c \in MatchingChoices(q, choice_ids[r]) |-> votes[c]]]
                /\ pc' = [pc EXCEPT ![r] = "update"]
                /\ UNCHANGED <<response, flash>>
           ELSE /\ IF Caught(exc)
                   THEN Return(r, RenderDetail(q), <<InvalidMsg>>)
                   ELSE Return(r, ServerError, <<>>)
                /\ UNCHANGED selected_choices
    /\ UNCHANGED <<now, votes, session, inputs, voted_questions, tx, counted>>

\* A row updated inside an open transaction is locked until it ends.
RowLocked(c, r) == \E o \in Requests \ {r} : c \in tx[o]

\* Choice.objects.filter(pk=choice.pk).update(votes=F("votes") + 1) for one
\* row of the loop; the queryset has no ordering, so the rows come in any
\* order.  The write stays inside the transaction until it commits.
UpdateChoice(r) ==
    /\ pc[r] = "update"
    /\ \E c \in (DOMAIN selected_choices[r]) \ tx[r] :
          /\ ~RowLocked(c, r)
          /\ tx' = [tx EXCEPT ![r] = tx[r] \cup {c}]
    /\ UNCHANGED <<now, votes, session, inputs, pc, voted_questions,
                   selected_choices, counted, response, flash>>

\* A read-modify-write in the handler: the value loaded with the queryset,
\* plus one, is written back.
NewVotesFromLoaded(stored, loaded) == loaded + 1

\* votes=F("votes") + 1: computed by the store from the stored value, not
\* from the value the handler loaded.
NewVotes(stored, loaded) == stored + 1

\* The loop with no filter on the primary key: every row of the question
\* is incremented when the transaction commits.
CommitWholeQuestion(r) ==
    /\ pc[r] = "update"
    /\ tx[r] = DOMAIN selected_choices[r]
    /\ votes' = [c \in Choices |->
                   IF c \in choice_set(question_id[r]) THEN votes[c] + 1
                   ELSE votes[c]]
    /\ counted' = [counted EXCEPT ![r] = choice_set(question_id[r])]
    /\ tx' = [tx EXCEPT ![r] = {}]
    /\ pc' = [pc EXCEPT ![r] = "bookkeep"]
    /\ UNCHANGED <<now, session, inputs, voted_questions, selected_choices,
                   response, flash>>

\* The end of the with transaction.atomic() block: every write of the
\* transaction becomes visible at once.
Commit(r) ==
    /\ pc[r] = "update"
    /\ tx[r] = DOMAIN selected_choices[r]
    /\ votes' = [c \in Choices |->
                   IF c \in tx[r] THEN NewVotes(votes[c], selected_choices[r][c])
                   ELSE votes[c]]
    /\ counted' = [counted EXCEPT ![r] = tx[r]]
    /\ tx' = [tx EXCEPT ![r] = {}]
    /\ pc' = [pc EXCEPT ![r] = "bookkeep"]
    /\ UNCHANGED <<now, session, inputs, voted_questions, selected_choices,
                   response, flash>>

\* The loop outside any transaction: each update is committed on its own,
\* and a failure leaves the updates made so far in the store.
AbortKeepsWrites(r) ==
    /\ pc[r] = "update"
    /\ votes' = [c \in Choices |-> IF c \in tx[r] THEN votes[c] + 1 ELSE votes[c]]
    /\ counted' = [counted EXCEPT ![r] = tx[r]]
    /\ tx' = [tx EXCEPT ![r] = {}]
    /\ Return(r, ServerError, <<>>)
    /\ UNCHANGED <<now, session, inputs, voted_questions, selected_choices>>

\* A store that never fails an update: no lock timeout and no deadlock
\* detection, so a blocked update waits for ever.
AbortNever(r) ==
    /\ pc[r] = "update"
    /\ FALSE
    /\ UNCHANGED vars

\* A failure of the store caught and ignored around the with block: the
\* handler goes on to the session bookkeeping and the success response.
AbortSwallowed(r) ==
    /\ pc[r] = "update"
    /\ tx' = [tx EXCEPT ![r] = {}]
    /\ pc' = [pc EXCEPT ![r] = "bookkeep"]
    /\ UNCHANGED <<now, votes, session, inputs, voted_questions,
                   selected_choices, counted, response, flash>>

\* A rollback done by hand: the handler takes back, in the store, the
\* increments of the rows it had updated, which were never committed.
AbortCompensates(r) ==
    /\ pc[r] = "update"
    /\ votes' = [c \in Choices |-> IF c \in tx[r] THEN votes[c] - 1 ELSE votes[c]]
    /\ tx' = [tx EXCEPT ![r] = {}]
    /\ Return(r, ServerError, <<>>)
    /\ UNCHANGED <<now, session, inputs, voted_questions, selected_choices,
                   counted>>

\* The store fails inside the with block: the transaction is rolled back
\* and the exception leaves the handler.
Abort(r) ==
    /\ pc[r] = "update"
    /\ tx' = [tx EXCEPT ![r] = {}]
    /\ Return(r, ServerError, <<>>)
    /\ UNCHANGED <<now, votes, session, inputs, voted_questions,
                   selected_choices, counted>>

\* The success path with the one plain message, whatever the number of
\* selected choices.
RecordVotePlainMessage(r) ==
    /\ pc[r] = "bookkeep"
    /\ voted_questions' = [voted_questions EXCEPT ![r] = Append(@, question_id[r])]
    /\ session' = [session EXCEPT ![session_key[r]] =
                      Append(voted_questions[r], question_id[r])]
    /\ Return(r, RedirectResults(question_id[r]), <<ThanksMsg>>)
    /\ UNCHANGED <<now, votes, inputs, selected_choices, tx, counted>>

\* voted_questions.append(question.id); the session write; the success
\* message and the redirect.
RecordVote(r) ==
    /\ pc[r] = "bookkeep"
    /\ LET q == question_id[r]
           choice_count == Cardinality(DOMAIN selected_choices[r])
       IN  /\ voted_questions' = [voted_questions EXCEPT ![r] = Append(@, q)]
           /\ session' = [session EXCEPT ![session_key[r]] =
                             Append(voted_questions[r], q)]
           /\ Return(r, RedirectResults(q),
                     IF choice_count = 1 THEN <<ThanksMsg>>
                     ELSE <<ThanksManyMsg(choice_count)>>)
    /\ UNCHANGED <<now, votes, inputs, selected_choices, tx, counted>>

\* One step of the handler of request r.
vote(r) ==
    \/ CheckMethod(r)
    \/ GetQuestion(r)
    \/ DuplicateGuard(r)
    \/ ValidateChoices(r)
    \/ UpdateChoice(r)
    \/ Commit(r)
    \/ Abort(r)
    \/ RecordVote(r)

Next == Tick \/ \E r \in Requests : vote(r)

Spec == Init /\ [][Next]_vars

\* The same handler when requests arrive one after the other: a request
\* takes a step only while no other request is between its first step and
\* its response.
NoOtherInFlight(r) == \A o \in Requests \ {r} : pc[o] \in {"start", "done"}

NextSeq == Tick \/ \E r \in Requests : NoOtherInFlight(r) /\ vote(r)

SpecSeq == Init /\ [][NextSeq]_vars

\* The concurrent handler under fair scheduling: a request that can take a
\* step eventually takes one.  An update blocked on a locked row completes
\* when the lock is released or fails (Abort).
FairSpec == Spec /\ \A r \in Requests : WF_vars(vote(r))

\* ---------------------------------------------------------------- claims
\* Request r takes the step.
Moves(r) == pc'[r] # pc[r] \/ tx'[r] # tx[r]

Done(r) == pc[r] = "done"

\* The submitted value at position i names the Choice row c.
Names(ids, i, c) == IsInt(ids[i]) /\ ToInt(ids[i]) = c

\* The submitted list names c somewhere.
Mentions(r, c) == \E i \in 1..Len(choice_ids[r]) : Names(choice_ids[r], i, c)

\* r is a POST for the question of c carrying exactly the identifier of c.
SingleChoicePost(r, c) ==
    /\ method[r] = "POST"
    /\ question_id[r] = QuestionOf[c]
    /\ Len(choice_ids[r]) = 1
    /\ Names(choice_ids[r], 1, c)

\* The outcomes of the handler.
Succeeded(r) ==
    /\ response[r] = RedirectResults(question_id[r])
    /\ Len(flash[r]) = 1
    /\ flash[r][1].level = "success"

Warned(r) ==
    /\ response[r] = RedirectResults(question_id[r])
    /\ flash[r] = <<AlreadyVotedMsg>>

FormError(r) ==
    /\ response[r] = RenderDetail(question_id[r])
    /\ flash[r] = <<InvalidMsg>>

\* The number of requests whose increment of c is committed.
CountedIn(c) == Cardinality({r \in Requests : c \in counted[r]})

\* Every committed counter is its initial value plus the committed
\* increments of the requests.
Accounting == \A c \in Choices : votes[c] = InitVotes[c] + CountedIn(c)

\* C1: when all requests have completed, and the requests that voted for
\* choice c are N valid single-choice POSTs for c from N distinct sessions
\* that all succeeded, the counter of c is its initial value plus N.
C1_NoLostUpdate ==
    \A c \in Choices :
        LET V == {r \in Requests : SingleChoicePost(r, c)}
        IN  ( /\ \A r \in Requests : Done(r)
              /\ \A r \in V : Succeeded(r)
              /\ \A r1, r2 \in V : r1 # r2 => session_key[r1] # session_key[r2]
              /\ \A r \in Requests \ V : ~(Succeeded(r) /\ Mentions(r, c)) )
            => votes[c] = InitVotes[c] + Cardinality(V)

\* Two requests for the same choice that both loaded the initial counter
\* before either committed, and both completed successfully.
C1_Witness ==
    \E c \in Choices :
        /\ \A r \in Requests : SingleChoicePost(r, c) /\ Done(r) /\ Succeeded(r)
        /\ \A r \in Requests : selected_choices[r][c] = InitVotes[c]
        /\ \A r1, r2 \in Requests : r1 # r2 => session_key[r1] # session_key[r2]
        /\ NumRequests >= 2
        /\ votes[c] = InitVotes[c] + NumRequests

\* C2: a submission is all-or-nothing on the committed counters: in every
\* state the committed counters hold the increments of all the choices a
\* request selected or of none of them, whatever part of the loop its open
\* transaction has run, and a request that ended with a storage failure
\* has changed none.
C2_AllOrNothing ==
    /\ Accounting
    /\ \A r \in Requests :
          /\ counted[r] = {} \/ counted[r] = DOMAIN selected_choices[r]
          /\ pc[r] = "update" => counted[r] = {}
          /\ response[r] = ServerError => counted[r] = {}

\* A two-choice submission part-way through its loop: one row updated in
\* the open transaction, no committed counter of its rows changed.
C2_Witness ==
    \E r \in Requests :
        /\ pc[r] = "update"
        /\ Cardinality(DOMAIN selected_choices[r]) = 2
        /\ Cardinality(tx[r]) = 1
        /\ \A c \in DOMAIN selected_choices[r] : votes[c] = InitVotes[c]

\* C3: every step of a POST that carries exactly the identifier of one
\* choice c of its question leaves all counters unchanged, except the
\* commit of its transaction, which adds exactly 1 to the counter of c and
\* changes no other counter; and such a request, once it has found its
\* question published and its session without a vote on it, goes on to
\* that commit unless the store fails.
C3_SingleVoteFrame ==
    [][\A r \in Requests : \A c \in Choices :
          (SingleChoicePost(r, c) /\ Moves(r)) =>
             /\ IF pc[r] = "update" /\ pc'[r] = "bookkeep"
                THEN votes' = [votes EXCEPT ![c] = votes[c] + 1]
                ELSE votes' = votes
             /\ (pc[r] = "guard" /\ ~(question_id[r] \in Elems(session[session_key[r]])))
                   => pc'[r] = "validate"
             /\ pc[r] = "validate" => pc'[r] = "update"
             /\ pc[r] = "update" => (pc'[r] = "bookkeep" \/ pc'[r] = pc[r]
                                      \/ response'[r] = ServerError)
             /\ pc[r] = "bookkeep" => Succeeded(r)'
      ]_vars

\* A single-choice vote for a question with two choices has succeeded: the
\* chosen counter is one above its initial value, every other counter is
\* at its initial value.
C3_Witness ==
    \E r \in Requests : \E c \in Choices :
        /\ SingleChoicePost(r, c)
        /\ Cardinality(choice_set(question_id[r])) >= 2
        /\ Succeeded(r)
        /\ votes[c] = InitVotes[c] + 1
        /\ \A o \in Choices \ {c} : votes[o] = InitVotes[o]

\* The requests of session s for question q that carry a valid selection
\* and were answered by the duplicate-vote guard or by the success path.
ValidVotesOf(s, q) ==
    {r \in Requests :
        /\ method[r] = "POST" /\ session_key[r] = s /\ question_id[r] = q
        /\ Validation(q, choice_ids[r]) = "ok"
        /\ Done(r)
        /\ response[r] \notin {NotFound, ServerError}}

\* The number of times q occurs in a list of question identifiers.
Occurrences(q, list) == Cardinality({i \in 1..Len(list) : list[i] = q})

\* C4: when requests are handled one after the other, among the valid votes
\* of one session on one question exactly one took the success path (its
\* selected counters incremented, the question recorded once in the
\* session's vote record) and every other one got the warning redirect and
\* incremented no counter and added nothing to the record.
C4_SecondVoteWarned ==
    /\ Accounting
    /\ \A s \in Sessions : \A q \in Questions :
          ValidVotesOf(s, q) # {} =>
             /\ \E r \in ValidVotesOf(s, q) :
                   /\ Succeeded(r)
                   /\ counted[r] = MatchingChoices(q, choice_ids[r])
                   /\ \A o \in ValidVotesOf(s, q) \ {r} : Warned(o) /\ counted[o] = {}
             /\ Occurrences(q, session[s]) = 1

\* Two valid votes of one session on one question, both answered: one with
\* the success redirect, one with the warning.
C4_Witness ==
    \E r1, r2 \in Requests :
        /\ r1 # r2
        /\ r1 \in ValidVotesOf(session_key[r1], question_id[r1])
        /\ r2 \in ValidVotesOf(session_key[r1], question_id[r1])
        /\ Succeeded(r1) /\ Warned(r2)
        /\ counted[r2] = {}
        /\ votes[ToInt(choice_ids[r1][1])] = InitVotes[ToInt(choice_ids[r1][1])] + 1

\* C5: for every session and question, at most one request of that session
\* for that question has its increments committed.
C5_OneCountedVotePerSession ==
    \A r1, r2 \in Requests :
        (r1 # r2 /\ session_key[r1] = session_key[r2] /\ question_id[r1] = question_id[r2])
            => (counted[r1] = {} \/ counted[r2] = {})

\* r was answered by the handler after it found its question: its method
\* was POST and the question existed and was published at the lookup.
FoundQuestion(r) ==
    Done(r) /\ method[r] = "POST" /\ response[r] # NotFound

\* C6 as stated: every POST for a published question that carries no choice
\* identifier is answered with the re-rendered form and the error message.
C6_EmptyAlwaysFormError ==
    \A r \in Requests :
        (FoundQuestion(r) /\ choice_ids[r] = <<>>) => FormError(r)

\* C6, amended: no step of a POST that carries no choice identifier changes
\* a counter or a session vote record, and when such a POST reaches the
\* choice validation (its question is published and its session's record
\* does not hold the question) it is answered with the re-rendered form
\* and the error message.
C6_EmptyRejected ==
    [][\A r \in Requests :
          (method[r] = "POST" /\ choice_ids[r] = <<>> /\ Moves(r)) =>
             /\ votes' = votes
             /\ session' = session
             /\ pc[r] = "validate" => (Done(r)' /\ FormError(r)')
             /\ pc'[r] \notin {"update", "bookkeep"}
      ]_vars

\* A POST with no identifier by a session that has not voted on the
\* published question, answered with the form and the error.
C6_Witness ==
    \E r \in Requests :
        /\ FoundQuestion(r) /\ choice_ids[r] = <<>>
        /\ ~AlreadyVoted(question_id[r], voted_questions[r])
        /\ FormError(r)
        /\ counted[r] = {}

\* Every submitted value is the identifier of an existing Choice row, and
\* at least one of the rows belongs to another question than the target.
ForeignChoicePost(r) ==
    /\ method[r] = "POST"
    /\ choice_ids[r] # <<>>
    /\ \A i \in 1..Len(choice_ids[r]) :
          IsInt(choice_ids[r][i]) /\ ToInt(choice_ids[r][i]) \in Choices
    /\ \E i \in 1..Len(choice_ids[r]) :
          QuestionOf[ToInt(choice_ids[r][i])] # question_id[r]

\* What the handler answers to a POST with no choice identifier, given the
\* vote record it read from the session: the warning redirect when the
\* record holds the question, the form with the error otherwise.
AnsweredAsEmpty(r) ==
    IF AlreadyVoted(question_id[r], voted_questions[r]) THEN Warned(r)
    ELSE FormError(r)

\* C7: a POST whose identifiers include a choice of another question, alone
\* or with valid choices of the target, is answered exactly as a POST with
\* no identifier is, and none of its increments is ever committed or even
\* written in a transaction: neither for the foreign choice nor for the
\* valid ones.
C7_ForeignChoiceRejected ==
    /\ Accounting
    /\ \A r \in Requests :
          /\ ForeignChoicePost(r) =>
                /\ counted[r] = {} /\ tx[r] = {}
                /\ pc[r] \notin {"update", "bookkeep"}
                /\ FoundQuestion(r) => AnsweredAsEmpty(r)
          /\ (FoundQuestion(r) /\ choice_ids[r] = <<>>) => AnsweredAsEmpty(r)

\* A POST for a question carrying one of its choices and a choice of
\* another question was answered with the form and the error, all counters
\* still at their initial values.
C7_Witness ==
    \E r \in Requests :
        /\ ForeignChoicePost(r)
        /\ Len(choice_ids[r]) = 2
        /\ MatchingChoices(question_id[r], choice_ids[r]) # {}
        /\ FoundQuestion(r) /\ FormError(r)
        /\ votes = InitVotes

\* Some submitted value is not the identifier of a choice of question q.
SomeIdInvalid(q, ids) ==
    \E i \in 1..Len(ids) : ~(IsInt(ids[i]) /\ ToInt(ids[i]) \in choice_set(q))

\* r reached the choice validation and was answered.
Validated(r) == FoundQuestion(r) /\ ~Warned(r)

\* The try block of r raised: r was answered without any row selected for
\* the counter update.
Refused(r) == Validated(r) /\ DOMAIN selected_choices[r] = {}

\* C8: a submission that reaches the choice validation is refused there if
\* and only if its list is empty or some submitted identifier is not a
\* choice of the target question.
C8_FailureIffInvalid ==
    \A r \in Requests :
        Validated(r) =>
            (Refused(r) <=>
                (choice_ids[r] = <<>> \/ SomeIdInvalid(question_id[r], choice_ids[r])))

\* C9: every step of a request whose method is not POST is the return of
\* method-not-allowed, with no message, and changes no counter and no
\* session vote record.
C9_NonPostNoEffect ==
    [][\A r \in Requests :
          (method[r] # "POST" /\ Moves(r)) =>
             /\ Done(r)' /\ response'[r] = NotAllowed
             /\ votes' = votes
             /\ session' = session
             /\ tx' = tx /\ counted' = counted
      ]_vars

\* A GET for a published question with a valid selection was answered
\* method-not-allowed.
C9_Witness ==
    \E r \in Requests :
        /\ method[r] = "GET" /\ Done(r) /\ response[r] = NotAllowed
        /\ question_id[r] \in Questions /\ Published(question_id[r], now)
        /\ Validation(question_id[r], choice_ids[r]) = "ok"
        /\ votes = InitVotes

\* The question identifier names no question, or one still to be published.
NotVotable(q) == q \notin Questions \/ pub_date[q] > now

\* C10: while a question is future-dated, and always for an identifier that
\* names no question, no request for it is past the lookup, every POST for
\* it that was answered got not-found, no counter of its choices has
\* changed and no session vote record holds it.
C10_FutureNeverVotable ==
    \A r \in Requests :
        NotVotable(question_id[r]) =>
            /\ pc[r] \in {"start", "lookup", "done"}
            /\ (Done(r) /\ method[r] = "POST") => (response[r] = NotFound /\ flash[r] = <<>>)
            /\ counted[r] = {} /\ tx[r] = {}
            /\ \A c \in Choices : QuestionOf[c] = question_id[r] => votes[c] = InitVotes[c]
            /\ \A s \in Sessions : ~AlreadyVoted(question_id[r], session[s])

\* A POST carrying a valid choice of a future-dated question was answered
\* not-found, and so was a POST for an identifier that names no question.
C10_Witness ==
    /\ \E r \in Requests :
          /\ question_id[r] \in Questions /\ pub_date[question_id[r]] > now
          /\ method[r] = "POST" /\ Done(r) /\ response[r] = NotFound
          /\ Validation(question_id[r], choice_ids[r]) = "ok"
    /\ \E r \in Requests :
          /\ question_id[r] \notin Questions
          /\ method[r] = "POST" /\ Done(r) /\ response[r] = NotFound

\* C11: a request that leaves its transaction without committing it (the
\* store failed) ends there with a server error and no message: no counter
\* changes, no increment of it is committed, not even for the rows it had
\* already updated, and no session vote record changes, so the record of
\* its session does not come to hold the question; and a request answered
\* with a server error never has a committed increment or a success
\* response.
C11_StorageFailureFailsAll ==
    [][\A r \in Requests :
          /\ (pc[r] = "update" /\ pc'[r] # "update" /\ counted'[r] = {}) =>
                /\ Done(r)' /\ response'[r] = ServerError /\ flash'[r] = <<>>
                /\ votes' = votes
                /\ session' = session
                /\ tx'[r] = {}
          /\ response'[r] = ServerError => (counted'[r] = {} /\ ~Succeeded(r)')
      ]_vars

\* A two-choice submission of a session failed in its transaction and left
\* every counter and the session's record as they were; another request of
\* the same session for the same question then found no vote recorded and
\* succeeded.
C11_Witness ==
    \E r1, r2 \in Requests :
        /\ r1 # r2
        /\ session_key[r1] = session_key[r2] /\ question_id[r1] = question_id[r2]
        /\ response[r1] = ServerError
        /\ Cardinality(DOMAIN selected_choices[r1]) = 2
        /\ counted[r1] = {}
        /\ Succeeded(r2)
        /\ session[session_key[r1]] = <<question_id[r1]>>
        /\ \A c \in Choices : votes[c] = InitVotes[c] + (IF c \in counted[r2] THEN 1 ELSE 0)

\* r commits its transaction in this step.
Commits(r) == pc[r] = "update" /\ pc'[r] = "bookkeep"

\* r is on the validated-success path: a POST for a published question
\* whose selection passed the validation.
OnValidatedPath(r) ==
    /\ method[r] = "POST"
    /\ question_id[r] \in Questions /\ Published(question_id[r], now)
    /\ Validation(question_id[r], choice_ids[r]) = "ok"
    /\ DOMAIN selected_choices[r] = MatchingChoices(question_id[r], choice_ids[r])

\* C12: in every step of any execution of vote requests every counter stays
\* a non-negative integer and does not decrease; a counter that changes
\* grows by exactly 1, in the commit of a request on the validated-success
\* path that selected it; and a commit adds 1 to every counter it selected.
C12_CounterMonotone ==
    [][\A c \in Choices :
          /\ votes[c] \in Nat /\ votes'[c] \in Nat
          /\ votes'[c] >= votes[c]
          /\ votes'[c] # votes[c] =>
                /\ votes'[c] = votes[c] + 1
                /\ \E r \in Requests :
                      Commits(r) /\ OnValidatedPath(r) /\ c \in DOMAIN selected_choices[r]
          /\ \A r \in Requests :
                (Commits(r) /\ c \in DOMAIN selected_choices[r]) => votes'[c] = votes[c] + 1
      ]_vars

\* A counter that has grown twice, once for each of two requests, while
\* another counter never changed.
C12_Witness ==
    \E c, o \in Choices :
        /\ votes[c] = InitVotes[c] + 2
        /\ votes[o] = InitVotes[o]
        /\ \A r \in Requests : counted[r] = {c}

\* C13: a submission that reaches the choice validation with an empty list
\* or with some identifier that is not a choice of the target question,
\* whatever its form, is answered with the re-rendered form and the error
\* message, never with the server error of a propagated exception.
C13_InvalidRecoveredLocally ==
    \A r \in Requests :
        (Validated(r) /\ (choice_ids[r] = <<>>
                            \/ SomeIdInvalid(question_id[r], choice_ids[r])))
            => (FormError(r) /\ response[r] # ServerError)

\* The five outcomes the claim names.
NamedOutcome(r) == response[r].status \in {"405", "404", "302", "200"}

\* C14 as stated: every request answered with one of the wrong-method,
\* not-found, already-voted, validation-failure and success outcomes has
\* recorded one message.
C14_MessageOnEveryPath ==
    \A r \in Requests : (Done(r) /\ NamedOutcome(r)) => Len(flash[r]) = 1

\* C14, amended: the already-voted, validation-failure and success outcomes
\* each record exactly one message before responding (the warning, the
\* error, a success message); the wrong-method and not-found outcomes
\* record none, and no message is recorded before the response.
C14_MessagePerOutcome ==
    \A r \in Requests :
        /\ ~Done(r) => (flash[r] = <<>> /\ response[r] = NoResponse)
        /\ Done(r) =>
              /\ response[r].status = "302" =>
                    \/ flash[r] = <<AlreadyVotedMsg>>
                    \/ flash[r] = <<ThanksMsg>>
                    \/ \E k \in 2..Cardinality(Choices) : flash[r] = <<ThanksManyMsg(k)>>
              /\ response[r].status = "200" => flash[r] = <<InvalidMsg>>
              /\ response[r].status \in {"405", "404"} => flash[r] = <<>>

\* One request answered with the form and its error message, another
\* answered method-not-allowed with no message.
C14_Witness ==
    \E r1, r2 \in Requests :
        /\ FormError(r1)
        /\ Done(r2) /\ response[r2] = NotAllowed /\ flash[r2] = <<>>

\* C15: the checks apply in the order method, question, session guard,
\* choice validation, counter update, session append.  A request that is
\* not a POST is answered method-not-allowed whatever its question; a
\* request answered method-not-allowed or not-found has read no session
\* record and selected no row; a request whose session record held the
\* question when it read it is answered with the warning, also when its
\* selection is empty or invalid, and has selected no row; and the
\* question is in a request's own list by its append only after its
\* increments were committed.
C15_CheckOrder ==
    \A r \in Requests :
        /\ (Done(r) /\ method[r] # "POST") => response[r] = NotAllowed
        /\ response[r] \in {NotAllowed, NotFound} =>
              (voted_questions[r] = <<>> /\ DOMAIN selected_choices[r] = {})
        /\ ( /\ FoundQuestion(r)
             /\ Validation(question_id[r], choice_ids[r]) # "ok"
             /\ AlreadyVoted(question_id[r], voted_questions[r]) ) => Warned(r)
        /\ Warned(r) => (DOMAIN selected_choices[r] = {} /\ counted[r] = {})
        /\ (AlreadyVoted(question_id[r], voted_questions[r]) /\ ~Warned(r)) =>
              /\ counted[r] # {}
              /\ counted[r] = DOMAIN selected_choices[r]
              /\ Succeeded(r)
        /\ pc[r] \in {"update", "bookkeep"} =>
              ~AlreadyVoted(question_id[r], voted_questions[r])

\* A session that has voted on a question submits an empty or invalid
\* selection for it and gets the warning redirect.
C15_Witness ==
    \E r1, r2 \in Requests :
        /\ r1 # r2 /\ Succeeded(r1)
        /\ session_key[r1] = session_key[r2] /\ question_id[r1] = question_id[r2]
        /\ method[r2] = "POST"
        /\ Validation(question_id[r2], choice_ids[r2]) # "ok"
        /\ Warned(r2)

\* C16: the session vote records change only in the session write of the
\* success path, and that step changes only the record of the requesting
\* session, by adding the question of the request to what the record
\* held: every identifier it held is still in it.
C16_SessionChangedOnlyBySuccess ==
    [][\A r \in Requests :
          Moves(r) =>
             IF pc[r] = "bookkeep"
             THEN /\ \A s \in Sessions \ {session_key[r]} : session'[s] = session[s]
                  /\ Elems(session'[session_key[r]]) =
                        Elems(session[session_key[r]]) \cup {question_id[r]}
             ELSE session' = session
      ]_vars

\* C17: a session's vote record only grows: a question identifier that is
\* in the record of a session is in it after every step.
C17_SessionRecordOnlyGrows ==
    [][\A s \in Sessions : \A q \in Questions :
          q \in Elems(session[s]) => q \in Elems(session'[s])
      ]_vars

\* The successful submissions that selected choice c.
SuccessfulFor(c) == {r \in Requests : Succeeded(r) /\ Mentions(r, c)}

\* No other request carries the session of r.
OwnSession(r) == \A o \in Requests \ {r} : session_key[o] # session_key[r]

\* C18: whatever the interleaving, once all requests have completed every
\* counter is its initial value plus the number of successful submissions
\* that selected it, the value any one-at-a-time order of the same
\* submissions gives; and a submission from a session of its own is never
\* turned away by the duplicate-vote guard because of the others.
C18_IndependentOfOrder ==
    /\ (\A r \in Requests : Done(r)) =>
          \A c \in Choices :
              votes[c] = InitVotes[c] + Cardinality(SuccessfulFor(c))
    /\ \A r \in Requests : OwnSession(r) => ~Warned(r)

\* Two submissions from distinct sessions for different choices of one
\* question, each validated before the other committed, both successful:
\* each of the two counters is one above its initial value.
C18_Witness ==
    \E r1, r2 \in Requests : \E c1, c2 \in Choices :
        /\ c1 # c2 /\ QuestionOf[c1] = QuestionOf[c2]
        /\ session_key[r1] # session_key[r2]
        /\ SingleChoicePost(r1, c1) /\ SingleChoicePost(r2, c2)
        /\ Succeeded(r1) /\ Succeeded(r2)
        /\ selected_choices[r1][c1] = InitVotes[c1]
        /\ selected_choices[r2][c2] = InitVotes[c2]
        /\ votes[c1] = InitVotes[c1] + 1 /\ votes[c2] = InitVotes[c2] + 1

\* The outcomes a request can end with.
Outcomes(q) ==
    {NotAllowed, NotFound, ServerError, RedirectResults(q), RenderDetail(q)}

\* C19: under fair scheduling every request is eventually answered; an
\* answered request has exactly one of the outcomes (method-not-allowed,
\* not-found, warning redirect, form with error, success redirect, server
\* error), a request not yet answered has none, and the outcome of an
\* answered request never changes.
C19_EveryRequestAnswered ==
    /\ \A r \in Requests : <>Done(r)
    /\ [](\A r \in Requests :
             /\ Done(r) => response[r] \in Outcomes(question_id[r])
             /\ ~Done(r) => response[r] = NoResponse)
    /\ [][\A r \in Requests :
             Done(r) => (Done(r)' /\ response'[r] = response[r] /\ flash'[r] = flash[r])]_vars

\* Two requests block one another: each has updated, in its open
\* transaction, a row the other still has to update.
C19_Witness ==
    \E r1, r2 \in Requests :
        /\ pc[r1] = "update" /\ pc[r2] = "update"
        /\ tx[r1] # {} /\ tx[r2] # {}
        /\ (DOMAIN selected_choices[r1]) \ tx[r1] \subseteq tx[r2]
        /\ (DOMAIN selected_choices[r2]) \ tx[r2] \subseteq tx[r1]
        /\ (DOMAIN selected_choices[r1]) \ tx[r1] # {}
        /\ (DOMAIN selected_choices[r2]) \ tx[r2] # {}

\* r was answered on the success path: it recorded a success message.
OnSuccessPath(r) ==
    Done(r) /\ Len(flash[r]) = 1 /\ flash[r][1].level = "success"

\* C20: a request answered on the success path got the redirect to the
\* results view of its question, and its message follows the number N of
\* counters its submission incremented: the plain phrasing for N = 1, the
\* phrasing that states N for N >= 2; every counter holds the increments
\* counted this way.
C20_SuccessMessage ==
    /\ Accounting
    /\ \A r \in Requests :
          OnSuccessPath(r) =>
             /\ response[r] = RedirectResults(question_id[r])
             /\ question_id[r] \in Questions
             /\ LET N == Cardinality(counted[r])
                IN  /\ N >= 1
                    /\ N = 1 => flash[r] = <<ThanksMsg>>
                    /\ N >= 2 => flash[r] = <<ThanksManyMsg(N)>>

\* A submission of two choices answered with the redirect and the message
\* that states 2, both counters incremented, beside a submission of one
\* choice answered with the plain message.
C20_Witness ==
    \E r1, r2 \in Requests :
        /\ OnSuccessPath(r1) /\ Cardinality(counted[r1]) = 2
        /\ flash[r1] = <<ThanksManyMsg(2)>>
        /\ OnSuccessPath(r2) /\ Cardinality(counted[r2]) = 1
        /\ flash[r2] = <<ThanksMsg>>

====
